---- MODULE Spec2Model ----
(***************************************************************************)
(* A model of exms: the exam statistics engine (src/exam/statistics.rs)    *)
(* and the ordering / filtering operations of Exam (src/exam/mod.rs).      *)
(*                                                                         *)
(* Numbers.  f32 values are modelled as exact fractions [num, den] in      *)
(* lowest terms with den >= 0.  den = 0 encodes the IEEE non-finite        *)
(* values: num = 0 is NaN, num = 1 is +inf, num = -1 is -inf.  Rounding    *)
(* of f32 is not modelled: it is monotone, and exact on every value the    *)
(* properties below name (0, 25, 50, 75, 100).  Grades are finite.         *)
(*                                                                         *)
(* Names are sequences of Unicode code points; String ordering in Rust is  *)
(* the lexicographic order of the UTF-8 bytes, which is the lexicographic  *)
(* order of the code points.                                               *)
(***************************************************************************)
EXTENDS Integers, Sequences, FiniteSets, TLC

(***************************************************************************)
(* Bounds of the model                                                     *)
(***************************************************************************)
\* longest student vector drawn as an input
MaxStudents == 3

\* most queries handed to one filter_by_name call
MaxQueries == 2

(***************************************************************************)
(* f32 arithmetic                                                          *)
(***************************************************************************)
Abs(n) == IF n < 0 THEN -n ELSE n

Sign(n) == IF n < 0 THEN -1 ELSE IF n = 0 THEN 0 ELSE 1

RECURSIVE GCD(_, _)
GCD(a, b) == IF b = 0 THEN a ELSE GCD(b, a % b)

\* the float n/d, for any integers n and d
Norm(n, d) ==
    IF d = 0 THEN [num |-> Sign(n), den |-> 0]
    ELSE LET s == IF d < 0 THEN -1 ELSE 1
             g == GCD(Abs(n), Abs(d))
         IN  [num |-> (s * n) \div g, den |-> (s * d) \div g]

FromInt(n) == [num |-> n, den |-> 1]

\* a decimal literal given in hundredths: Dec(465) is 4.65
Dec(h) == Norm(h, 100)

NaN == [num |-> 0, den |-> 0]

IsNaN(a) == a.num = 0 /\ a.den = 0

\* over the least common denominator, which keeps the integers small
FAdd(a, b) ==
    IF a.den = 0 \/ b.den = 0
    THEN Norm(a.num * b.den + b.num * a.den, 0)
    ELSE LET g == GCD(a.den, b.den)
         IN  Norm(a.num * (b.den \div g) + b.num * (a.den \div g),
                  (a.den \div g) * b.den)

FNeg(a) == [num |-> -a.num, den |-> a.den]

FSub(a, b) == FAdd(a, FNeg(b))

FMul(a, b) == Norm(a.num * b.num, a.den * b.den)

FDiv(a, b) == Norm(a.num * b.den, a.den * b.num)

\* the == of f32: NaN equals nothing
FEq(a, b) == ~IsNaN(a) /\ ~IsNaN(b) /\ a = b

FLt(a, b) == ~IsNaN(a) /\ ~IsNaN(b) /\ a.num * b.den < b.num * a.den

FGe(a, b) == ~IsNaN(a) /\ ~IsNaN(b) /\ a.num * b.den >= b.num * a.den

\* a.partial_cmp(&b).unwrap_or(Ordering::Equal)
PartialCmp(a, b) ==
    IF FLt(a, b) THEN "Less" ELSE IF FLt(b, a) THEN "Greater" ELSE "Equal"

(***************************************************************************)
(* Option<T>: None is the empty sequence, Some(v) the one-element sequence *)
(***************************************************************************)
None == <<>>

Some(v) == <<v>>

UnwrapOr(o, d) == IF o = None THEN d ELSE o[1]

(***************************************************************************)
(* Students                                                                *)
(***************************************************************************)
\* "Jo", "jos", "Ana"
Names == { <<74, 111>>, <<106, 111, 115>>, <<65, 110, 97>> }

Grades == { Dec(360), Dec(500), Dec(1000) }

MaxGrades == { FromInt(0), FromInt(10), FromInt(20) }

Student_new(name, grade) ==
    [name |-> name, grade |-> grade, rank |-> None, percentile |-> None]

\* the fixture students() of the tests of exam/mod.rs, before the engine ran
TestStudents ==
    << Student_new(<<74, 111, 97, 110>>, Dec(465)),
       Student_new(<<74, 111, 115, 101>>, Dec(360)),
       Student_new(<<68, 97, 118, 105, 100>>, Dec(794)),
       Student_new(<<74, 111, 114, 103, 101>>, Dec(503)),
       Student_new(<<65, 100, 114, 105, 225, 110>>, Dec(196)) >>

\* the scenario A = 5.0, B = 5.0, C = 10.0
TieStudents ==
    << Student_new(<<65>>, Dec(500)),
       Student_new(<<66>>, Dec(500)),
       Student_new(<<67>>, Dec(1000)) >>

(***************************************************************************)
(* Stable sorting (slice::sort_by is a stable sort)                        *)
(***************************************************************************)
Range(s) == { s[i] : i \in 1..Len(s) }

\* A comparator closure is passed as a function: less[x, y] holds iff the
\* closure returns Ordering::Less for (x, y).
\* insertion sort: each element goes behind every element that does not
\* compare greater than it, so equal elements keep their order
RECURSIVE Insert(_, _, _)
Insert(t, x, less) ==
    IF t = <<>> THEN <<x>>
    ELSE IF less[x, t[1]] THEN <<x>> \o t
    ELSE <<t[1]>> \o Insert(Tail(t), x, less)

RECURSIVE SortFrom(_, _, _)
SortFrom(done, rest, less) ==
    IF rest = <<>> THEN done
    ELSE SortFrom(Insert(done, rest[1], less), Tail(rest), less)

sort_by(s, less) == SortFrom(<<>>, s, less)

(***************************************************************************)
(* exam/statistics.rs: the ranking and percentile engine                   *)
(***************************************************************************)
\* (0..total_students).collect(), as 1-based positions
Indices(students) == [i \in 1..Len(students) |-> i]

\* the loop of attach_rank over indices[k..]
RECURSIVE RankLoop(_, _, _, _, _, _)
RankLoop(students, indices, k, last_grade, last_rank, counter) ==
    IF k > Len(indices) THEN students
    ELSE LET student_index == indices[k]
             grade == students[student_index].grade
             tie   == last_grade # None /\ FEq(grade, last_grade[1])
             rank  == IF tie THEN UnwrapOr(last_rank, 0) ELSE counter + 1
             next  == IF tie THEN counter ELSE counter + 1
         IN  RankLoop([students EXCEPT ![student_index].rank = Some(rank)],
                      indices, k + 1, Some(grade), Some(rank), next)

\* variant: a new grade takes its position in the order as its rank ("1224")
RECURSIVE RankLoopByPosition(_, _, _, _, _)
RankLoopByPosition(students, indices, k, last_grade, last_rank) ==
    IF k > Len(indices) THEN students
    ELSE LET student_index == indices[k]
             grade == students[student_index].grade
             tie   == last_grade # None /\ FEq(grade, last_grade[1])
             rank  == IF tie THEN UnwrapOr(last_rank, 0) ELSE k
         IN  RankLoopByPosition(
                 [students EXCEPT ![student_index].rank = Some(rank)],
                 indices, k + 1, Some(grade), Some(rank))

attach_rank_by_position(students) ==
    LET Desc == [a \in DOMAIN students, b \in DOMAIN students |->
                PartialCmp(students[b].grade, students[a].grade) = "Less"]
        indices == sort_by(Indices(students), Desc)
    IN  RankLoopByPosition(students, indices, 1, None, None)

attach_rank(students) ==
    LET Desc == [a \in DOMAIN students, b \in DOMAIN students |->
                PartialCmp(students[b].grade, students[a].grade) = "Less"]
        indices == sort_by(Indices(students), Desc)
    IN  RankLoop(students, indices, 1, None, None, 0)

\* Iterator::max_by returns the last of several maximal elements
RECURSIVE MaxBy(_, _)
MaxBy(grades, acc) ==
    IF grades = <<>> THEN acc
    ELSE MaxBy(Tail(grades),
               IF acc = None THEN Some(grades[1])
               ELSE IF PartialCmp(acc[1], grades[1]) = "Greater" THEN acc
               ELSE Some(grades[1]))

\* Iterator::min_by returns the first of several minimal elements
RECURSIVE MinBy(_, _)
MinBy(grades, acc) ==
    IF grades = <<>> THEN acc
    ELSE MinBy(Tail(grades),
               IF acc = None THEN Some(grades[1])
               ELSE IF PartialCmp(acc[1], grades[1]) = "Greater"
                    THEN Some(grades[1])
               ELSE acc)

GradesOf(students) == [i \in 1..Len(students) |-> students[i].grade]

max_student_grade(students) ==
    UnwrapOr(MaxBy(GradesOf(students), None), FromInt(0))

min_student_grade(students) ==
    UnwrapOr(MinBy(GradesOf(students), None), FromInt(0))

\* the loop of attach_percentile over indices[k..]; index is k - 1
RECURSIVE PercentileLoop(_, _, _, _, _, _)
PercentileLoop(students, indices, k, max_grade, last_grade, last_percentile) ==
    IF k > Len(indices) THEN students
    ELSE LET student_index == indices[k]
             total_students == Len(students)
             grade == students[student_index].grade
             percentile ==
                 IF last_grade # None /\ FEq(grade, last_grade[1])
                 THEN UnwrapOr(last_percentile, FromInt(0))
                 ELSE IF FEq(grade, max_grade) THEN FromInt(100)
                 ELSE FMul(FDiv(FromInt(k - 1), FromInt(total_students - 1)),
                           FromInt(100))
         IN  PercentileLoop(
                 [students EXCEPT ![student_index].percentile = Some(percentile)],
                 indices, k + 1, max_grade, Some(grade), Some(percentile))

\* variant: the indices are walked in store order, without the sort
attach_percentile_unsorted(students) ==
    LET max_grade == UnwrapOr(MaxBy(GradesOf(students), None), FromInt(0))
    IN  PercentileLoop(students, Indices(students), 1, max_grade, None, None)

\* variant: the reference grade is taken with min_by instead of max_by
attach_percentile_min(students) ==
    LET Asc == [a \in DOMAIN students, b \in DOMAIN students |->
                PartialCmp(students[a].grade, students[b].grade) = "Less"]
        max_grade == UnwrapOr(MinBy(GradesOf(students), None), FromInt(0))
        indices == sort_by(Indices(students), Asc)
    IN  PercentileLoop(students, indices, 1, max_grade, None, None)

\* variant: the indices are sorted by grade descending, as in attach_rank
attach_percentile_descending(students) ==
    LET Desc == [a \in DOMAIN students, b \in DOMAIN students |->
                PartialCmp(students[b].grade, students[a].grade) = "Less"]
        max_grade == UnwrapOr(MaxBy(GradesOf(students), None), FromInt(0))
        indices == sort_by(Indices(students), Desc)
    IN  PercentileLoop(students, indices, 1, max_grade, None, None)

\* variant: the index is divided by total_students instead of total_students - 1
RECURSIVE PercentileLoopOverTotal(_, _, _, _, _, _)
PercentileLoopOverTotal(students, indices, k, max_grade, last_grade,
                        last_percentile) ==
    IF k > Len(indices) THEN students
    ELSE LET student_index == indices[k]
             total_students == Len(students)
             grade == students[student_index].grade
             percentile ==
                 IF last_grade # None /\ FEq(grade, last_grade[1])
                 THEN UnwrapOr(last_percentile, FromInt(0))
                 ELSE IF FEq(grade, max_grade) THEN FromInt(100)
                 ELSE FMul(FDiv(FromInt(k - 1), FromInt(total_students)),
                           FromInt(100))
         IN  PercentileLoopOverTotal(
                 [students EXCEPT ![student_index].percentile = Some(percentile)],
                 indices, k + 1, max_grade, Some(grade), Some(percentile))

attach_percentile_over_total(students) ==
    LET Asc == [a \in DOMAIN students, b \in DOMAIN students |->
                PartialCmp(students[a].grade, students[b].grade) = "Less"]
        max_grade == UnwrapOr(MaxBy(GradesOf(students), None), FromInt(0))
        indices == sort_by(Indices(students), Asc)
    IN  PercentileLoopOverTotal(students, indices, 1, max_grade, None, None)

attach_percentile(students) ==
    LET Asc == [a \in DOMAIN students, b \in DOMAIN students |->
                PartialCmp(students[a].grade, students[b].grade) = "Less"]
        max_grade == UnwrapOr(MaxBy(GradesOf(students), None), FromInt(0))
        indices == sort_by(Indices(students), Asc)
    IN  PercentileLoop(students, indices, 1, max_grade, None, None)

(***************************************************************************)
(* exam/statistics.rs: the aggregate statistics                            *)
(***************************************************************************)
RECURSIVE Sum(_)
Sum(values) ==
    IF values = <<>> THEN FromInt(0)
    ELSE FAdd(Sum(SubSeq(values, 1, Len(values) - 1)), values[Len(values)])

mean(students) ==
    LET total_students == Len(students)
        grades_sum == Sum(GradesOf(students))
    IN  IF total_students = 0 THEN FromInt(0)
        ELSE FDiv(grades_sum, FromInt(total_students))

median(students) ==
    LET total_students == Len(students)
        Asc == [a \in Range(GradesOf(students)), b \in Range(GradesOf(students))
                   |-> PartialCmp(a, b) = "Less"]
        grades == sort_by(GradesOf(students), Asc)
        middle == total_students \div 2
    IN  IF total_students = 0 THEN FromInt(0)
        ELSE IF total_students % 2 = 0
             THEN FDiv(FAdd(grades[middle], grades[middle + 1]), FromInt(2))
        ELSE grades[middle + 1]

\* variant: a grade of exactly half the maximum does not pass
passed_students_strict(students, max_grade) ==
    Len(SelectSeq(students,
                  LAMBDA s : FLt(FDiv(max_grade, FromInt(2)), s.grade)))

passed_students(students, max_grade) ==
    Len(SelectSeq(students,
                  LAMBDA s : FGe(s.grade, FDiv(max_grade, FromInt(2)))))

\* std_dev is the square root of the value kept here: [radicand |-> v]
\* stands for sqrt(v), and the 0.0 of the empty set is sqrt(0)
std_deviation(students, m) ==
    LET total_students == Len(students)
        squares == [i \in 1..total_students |->
                       FMul(FSub(students[i].grade, m),
                            FSub(students[i].grade, m))]
        sum == Sum(squares)
    IN  IF total_students = 0 THEN [radicand |-> FromInt(0)]
        ELSE [radicand |-> FDiv(sum, FromInt(total_students))]

RECURSIVE MaxNat(_)
MaxNat(values) ==
    IF values = <<>> THEN None
    ELSE LET rest == MaxNat(Tail(values))
         IN  IF rest = None \/ values[1] > rest[1] THEN Some(values[1])
             ELSE rest

highest_rank(students) ==
    UnwrapOr(MaxNat([i \in 1..Len(students) |->
                        UnwrapOr(students[i].rank, 0)]), 0)

\* the engine runs on the slice first; the record is built from the result
ExamStatistics_new(students, max_grade) ==
    LET attached == attach_percentile(attach_rank(students))
        total_students == Len(attached)
        passed == passed_students(attached, max_grade)
        failed == total_students - passed
        pass_rate == FMul(FDiv(FromInt(passed), FromInt(total_students)),
                          FromInt(100))
        m == mean(attached)
    IN  [students |-> attached,
         statistics |->
            [total_students  |-> total_students,
             passed_students |-> passed,
             failed_students |-> failed,
             pass_rate       |-> pass_rate,
             mean            |-> m,
             median          |-> median(attached),
             std_dev         |-> std_deviation(attached, m),
             max_grade       |-> max_grade,
             highest_grade   |-> max_student_grade(attached),
             lowest_grade    |-> min_student_grade(attached),
             highest_rank    |-> highest_rank(attached)]]

(***************************************************************************)
(* Strings                                                                 *)
(***************************************************************************)
\* char::to_lowercase on the letters of Basic Latin and Latin-1
LowerChar(c) ==
    IF c >= 65 /\ c <= 90 THEN c + 32
    ELSE IF c >= 192 /\ c <= 222 /\ c # 215 THEN c + 32
    ELSE c

to_lowercase(name) == [i \in 1..Len(name) |-> LowerChar(name[i])]

\* str::contains
contains(hay, needle) ==
    \E i \in 0..(Len(hay) - Len(needle)) :
        SubSeq(hay, i + 1, i + Len(needle)) = needle

\* the Ord of String: lexicographic, a proper prefix is smaller
RECURSIVE StrLess(_, _)
StrLess(a, b) ==
    IF b = <<>> THEN FALSE
    ELSE IF a = <<>> THEN TRUE
    ELSE IF a[1] # b[1] THEN a[1] < b[1]
    ELSE StrLess(Tail(a), Tail(b))

(***************************************************************************)
(* input.rs: parse_file                                                    *)
(***************************************************************************)
\* A file on disk: whether it can be read, the extension of its path, and
\* what a deserializer of its format finds in it.
\* "JO" 4.0 ; "ana" 1.0, "jos" 2.0 ; "jo" 3.0, "ANA" 6.0
FileStudents ==
    { << Student_new(<<74, 79>>, FromInt(4)) >>,
      << Student_new(<<97, 110, 97>>, FromInt(1)),
         Student_new(<<106, 111, 115>>, FromInt(2)) >>,
      << Student_new(<<106, 111>>, FromInt(3)),
         Student_new(<<65, 78, 65>>, FromInt(6)) >> }

Files ==
    [readable : {TRUE}, extension : {Some("toml"), Some("json")},
     well_formed : {TRUE}, students : FileStudents]
    \cup
    { [readable |-> FALSE, extension |-> Some("toml"), well_formed |-> TRUE,
       students |-> <<>>],
      [readable |-> FALSE, extension |-> None, well_formed |-> TRUE,
       students |-> <<>>],
      [readable |-> TRUE, extension |-> None, well_formed |-> TRUE,
       students |-> <<>>],
      [readable |-> TRUE, extension |-> Some("txt"), well_formed |-> TRUE,
       students |-> <<>>],
      [readable |-> TRUE, extension |-> Some("toml"), well_formed |-> FALSE,
       students |-> <<>>],
      [readable |-> TRUE, extension |-> Some("json"), well_formed |-> FALSE,
       students |-> <<>>] }

Err(kind) == [kind |-> kind, students |-> <<>>]

Ok(students) == [kind |-> "Ok", students |-> students]

parse_file(file) ==
    IF ~file.readable THEN Err("Io")
    ELSE IF file.extension = Some("toml")
         THEN IF file.well_formed THEN Ok(file.students) ELSE Err("ParseToml")
    ELSE IF file.extension = Some("json")
         THEN IF file.well_formed THEN Ok(file.students) ELSE Err("ParseJson")
    ELSE IF file.extension = None THEN Err("MissingFormat")
    ELSE Err("UnsupportedFormat")

(***************************************************************************)
(* exam/mod.rs: Exam                                                       *)
(***************************************************************************)
\* "Jo", "jos", "Ana"
ExamNames == Names

ExamGrades == { Dec(500), Dec(1000) }

\* "jo", "AN"
Queries == { <<106, 111>>, <<65, 78>> }

\* the files handed to filter_by_file: the well-formed TOML files, a file
\* that cannot be read and a malformed TOML file
ExamFiles ==
    { file \in Files :
          /\ file.extension = Some("toml")
          /\ file.readable \/ file.well_formed }

\* the engine as from_student_vec runs it on the new vector
calculate_percentiles(students) == attach_percentile(attach_rank(students))

\* variant: the sort stores the lower-cased key as the name
SortedByName_lowercased(students) ==
    LET lowered == [i \in 1..Len(students) |->
                       [students[i] EXCEPT !.name = to_lowercase(@)]]
        ByKey == [a \in Range(lowered), b \in Range(lowered) |->
                     StrLess(a.name, b.name)]
    IN  sort_by(lowered, ByKey)

SortedByName(students) ==
    LET ByKey == [a \in Range(students), b \in Range(students) |->
                     StrLess(to_lowercase(a.name), to_lowercase(b.name))]
    IN  sort_by(students, ByKey)

\* variant: the students are not put in alphabetic order first
SortedByGrade_grade_only(students) ==
    LET Desc == [a \in Range(students), b \in Range(students) |->
                    PartialCmp(b.grade, a.grade) = "Less"]
    IN  sort_by(students, Desc)

SortedByGrade(students) ==
    LET Desc == [a \in Range(students), b \in Range(students) |->
                    PartialCmp(b.grade, a.grade) = "Less"]
    IN  sort_by(SortedByName(students), Desc)

\* variant: the engine is run again on what a name filter retains
RetainByName_recomputed(students, query) ==
    calculate_percentiles(
        SelectSeq(students,
                  LAMBDA student :
                      \E k \in 1..Len(query) :
                          contains(to_lowercase(student.name),
                                   to_lowercase(query[k]))))

\* variant: a query has to be the whole name
RetainByName_exact(students, query) ==
    SelectSeq(students,
              LAMBDA student :
                  \E k \in 1..Len(query) :
                      to_lowercase(student.name) = to_lowercase(query[k]))

RetainByName(students, query) ==
    SelectSeq(students,
              LAMBDA student :
                  \E k \in 1..Len(query) :
                      contains(to_lowercase(student.name),
                               to_lowercase(query[k])))

\* variant: the engine is run again on what a file filter retains
RetainByFile_recomputed(students, others) ==
    calculate_percentiles(
        SelectSeq(students,
                  LAMBDA student :
                      \E k \in 1..Len(others) :
                          to_lowercase(others[k].name)
                              = to_lowercase(student.name)))

\* variant: a name of the file has to be a part of the name
RetainByFile_substring(students, others) ==
    SelectSeq(students,
              LAMBDA student :
                  \E k \in 1..Len(others) :
                      contains(to_lowercase(student.name),
                               to_lowercase(others[k].name)))

RetainByFile(students, others) ==
    SelectSeq(students,
              LAMBDA student :
                  \E k \in 1..Len(others) :
                      to_lowercase(others[k].name) = to_lowercase(student.name))

(***************************************************************************)
(* exam/plot.rs: histogram                                                 *)
(*                                                                         *)
(* The step and the maximum grade are finite and the step is not zero, so  *)
(* every quotient below is finite.                                         *)
(***************************************************************************)
\* f64::floor and f64::ceil of a finite value, as integers
Floor(a) == a.num \div a.den

Ceil(a) == -((-a.num) \div a.den)

\* "as usize" of an integral value: a negative value saturates to 0
AsUsize(n) == IF n < 0 THEN 0 ELSE n

\* max_grade as the closure of the map leaves it: the closure replaces a
\* max_grade of 0.0 by 0.1 when it runs, that is once there is a student
EffectiveMaxGrade(students, max_grade) ==
    IF Len(students) > 0 /\ FEq(max_grade, FromInt(0)) THEN Dec(10)
    ELSE max_grade

\* the grades as they are handed to the buckets
ClampedGrades(students, effective) ==
    [i \in 1..Len(students) |->
        IF FLt(effective, students[i].grade) THEN FSub(effective, Dec(1))
        ELSE IF FEq(students[i].grade, effective)
             THEN FSub(students[i].grade, Dec(1))
        ELSE students[i].grade]

Overflow(students, effective) ==
    \E i \in 1..Len(students) : FLt(effective, students[i].grade)

\* (max_grade as f64 / step).ceil() as usize
BucketCount(effective, step_value) ==
    AsUsize(Ceil(FDiv(effective, step_value)))

\* the loop over the grades from grades[k] on; buckets[b + 1] is the count
\* of bucket b, and an index past the buckets is a panic that ends the loop
RECURSIVE BucketLoop(_, _, _, _, _, _)
BucketLoop(grades, k, step_value, buckets, bucket_of, max_bucket_size) ==
    IF k > Len(grades)
    THEN [panicked |-> FALSE, buckets |-> buckets, bucket_of |-> bucket_of,
          max_bucket_size |-> max_bucket_size]
    ELSE LET bucket == AsUsize(Floor(FDiv(grades[k], step_value)))
         IN  IF bucket >= Len(buckets)
             THEN [panicked |-> TRUE, buckets |-> buckets,
                   bucket_of |-> bucket_of,
                   max_bucket_size |-> max_bucket_size]
             ELSE LET count == buckets[bucket + 1] + 1
                  IN  BucketLoop(grades, k + 1, step_value,
                                 [buckets EXCEPT ![bucket + 1] = count],
                                 Append(bucket_of, bucket),
                                 IF count > max_bucket_size THEN count
                                 ELSE max_bucket_size)

Histogram(students, max_grade, step_option) ==
    LET step_value == UnwrapOr(step_option, FromInt(1))
        effective == EffectiveMaxGrade(students, max_grade)
        grades == ClampedGrades(students, effective)
        count == BucketCount(effective, step_value)
        counted == BucketLoop(grades, 1, step_value,
                              [b \in 1..count |-> 0], <<>>, 0)
    IN  [panicked |-> counted.panicked,
         overflow |-> Overflow(students, effective),
         max_grade |-> effective,
         grades |-> grades,
         buckets |-> counted.buckets,
         bucket_of |-> counted.bucket_of,
         max_bucket_size |-> counted.max_bucket_size]

(***************************************************************************)
(* State                                                                   *)
(***************************************************************************)
VARIABLES
    students,     \* the student vector: the input, then Exam.students
    max_grade,    \* the configured maximum grade
    statistics,   \* Some(ExamStatistics) once built
    constructed,  \* history: Exam.students as the constructor left it
    result,       \* the Result of the last fallible operation
    pc,           \* "input": the vector is built; then "exam" or "done"
    disk,         \* the file at the path given to Exam::from_file
    step,         \* the step argument of histogram, an Option
    plot          \* Some(what histogram computed) once it was called

vars == <<students, max_grade, statistics, constructed, result, pc,
          disk, step, plot>>

\* what the operations of the exam and of the statistics never touch
inputs == <<disk, step, plot>>

SeqsUpTo(S, n) == UNION { [1..k -> S] : k \in 0..n }

StudentsOver(names, grades) ==
    { Student_new(n, g) : n \in names, g \in grades }

(***************************************************************************)
(* The exam: construction, then any sequence of sorts and filters          *)
(***************************************************************************)
Init ==
    /\ students \in SeqsUpTo(StudentsOver(ExamNames, ExamGrades), MaxStudents)
                    \cup {TestStudents, TieStudents}
    /\ max_grade = FromInt(10)
    /\ statistics = None
    /\ constructed = <<>>
    /\ result = "Ok"
    /\ pc = "input"
    /\ disk = None
    /\ step = None
    /\ plot = None

from_student_vec ==
    /\ pc = "input"
    /\ students' = calculate_percentiles(students)
    /\ constructed' = students'
    /\ pc' = "exam"
    /\ UNCHANGED <<max_grade, statistics, result>>
    /\ UNCHANGED inputs

sort_by_grade ==
    /\ pc = "exam"
    /\ students' = SortedByGrade(students)
    /\ result' = "Ok"
    /\ UNCHANGED <<max_grade, statistics, constructed, pc>>
    /\ UNCHANGED inputs

sort_by_alphabetic_order ==
    /\ pc = "exam"
    /\ students' = SortedByName(students)
    /\ result' = "Ok"
    /\ UNCHANGED <<max_grade, statistics, constructed, pc>>
    /\ UNCHANGED inputs

filter_by_name(query) ==
    /\ pc = "exam"
    /\ students' = RetainByName(students, query)
    /\ result' = "Ok"
    /\ UNCHANGED <<max_grade, statistics, constructed, pc>>
    /\ UNCHANGED inputs

\* variant: a file that fails to parse counts as a file without students
filter_by_file_default(file) ==
    /\ pc = "exam"
    /\ LET parsed == parse_file(file)
       IN  /\ students' = RetainByFile(students, parsed.students)
           /\ result' = parsed.kind
    /\ UNCHANGED <<max_grade, statistics, constructed, pc>>
    /\ UNCHANGED inputs

filter_by_file(file) ==
    /\ pc = "exam"
    /\ LET parsed == parse_file(file)
       IN  IF parsed.kind # "Ok"
           THEN /\ result' = parsed.kind
                /\ UNCHANGED students
           ELSE /\ students' = RetainByFile(students, parsed.students)
                /\ result' = "Ok"
    /\ UNCHANGED <<max_grade, statistics, constructed, pc>>
    /\ UNCHANGED inputs

Next ==
    \/ from_student_vec
    \/ sort_by_grade
    \/ sort_by_alphabetic_order
    \/ \E query \in SeqsUpTo(Queries, MaxQueries) : filter_by_name(query)
    \/ \E file \in ExamFiles : filter_by_file(file)

Spec == Init /\ [][Next]_vars

(***************************************************************************)
(* The filters alone, on any file: construction, then any filters          *)
(***************************************************************************)
\* "Jo", "jos" and "Ana" with 5.0, and a second "Jo" with 10.0
FilterStudents ==
    StudentsOver(ExamNames, {Dec(500)})
        \cup { Student_new(<<74, 111>>, Dec(1000)) }

InitFilter ==
    /\ students \in SeqsUpTo(FilterStudents, MaxStudents) \cup {TestStudents}
    /\ max_grade = FromInt(10)
    /\ statistics = None
    /\ constructed = <<>>
    /\ result = "Ok"
    /\ pc = "input"
    /\ disk = None
    /\ step = None
    /\ plot = None

NextFilter ==
    \/ from_student_vec
    \/ \E query \in SeqsUpTo(Queries, MaxQueries) : filter_by_name(query)
    \/ \E file \in Files : filter_by_file(file)

SpecFilter == InitFilter /\ [][NextFilter]_vars

(***************************************************************************)
(* The sorts alone, on names with accents: construction, then any sorts    *)
(***************************************************************************)
\* "án", "Bo", "ana"
SortNames == { <<225, 110>>, <<66, 111>>, <<97, 110, 97>> }

InitSort ==
    /\ students \in SeqsUpTo(StudentsOver(SortNames, ExamGrades), MaxStudents)
                    \cup {TestStudents}
    /\ max_grade = FromInt(10)
    /\ statistics = None
    /\ constructed = <<>>
    /\ result = "Ok"
    /\ pc = "input"
    /\ disk = None
    /\ step = None
    /\ plot = None

NextSort ==
    \/ from_student_vec
    \/ sort_by_grade
    \/ sort_by_alphabetic_order

SpecSort == InitSort /\ [][NextSort]_vars

(***************************************************************************)
(* Exam::from_file on any file                                             *)
(***************************************************************************)
DiskFiles ==
    [readable : BOOLEAN,
     extension : {None, Some("toml"), Some("json"), Some("txt")},
     well_formed : BOOLEAN,
     students : SeqsUpTo(FilterStudents, MaxStudents - 1)]

InitFile ==
    /\ disk \in { Some(f) : f \in DiskFiles }
    /\ students = <<>>
    /\ max_grade = FromInt(10)
    /\ statistics = None
    /\ constructed = <<>>
    /\ result = "Ok"
    /\ pc = "input"
    /\ step = None
    /\ plot = None

from_file ==
    /\ pc = "input"
    /\ disk # None
    /\ LET parsed == parse_file(disk[1])
       IN  IF parsed.kind # "Ok"
           THEN /\ result' = parsed.kind
                /\ pc' = "failed"
                /\ UNCHANGED <<students, constructed>>
           ELSE /\ students' = calculate_percentiles(parsed.students)
                /\ constructed' = students'
                /\ result' = "Ok"
                /\ pc' = "exam"
    /\ UNCHANGED <<max_grade, statistics>>
    /\ UNCHANGED inputs

NextFile == from_file

SpecFile == InitFile /\ [][NextFile]_vars

(***************************************************************************)
(* histogram applied to any vector, max_grade and step                     *)
(***************************************************************************)
\* 0.0, 0.05, 1.0, 5.0, 10.0, 11.0
HistogramGrades ==
    { FromInt(0), Dec(5), FromInt(1), FromInt(5), FromInt(10), FromInt(11) }

HistogramMaxGrades == { FromInt(0), FromInt(1), FromInt(10) }

\* the default, 2.0, 0.005, -1.0
Steps == { None, Some(FromInt(2)), Some(Norm(1, 200)), Some(FromInt(-1)) }

InitHistogram ==
    /\ students \in SeqsUpTo(StudentsOver({<<65>>}, HistogramGrades),
                             MaxStudents)
    /\ max_grade \in HistogramMaxGrades
    /\ step \in Steps
    /\ statistics = None
    /\ constructed = <<>>
    /\ result = "Ok"
    /\ pc = "input"
    /\ disk = None
    /\ plot = None

histogram ==
    /\ pc = "input"
    /\ LET drawn == Histogram(students, max_grade, step)
       IN  /\ plot' = Some(drawn)
           /\ pc' = IF drawn.panicked THEN "panicked" ELSE "plotted"
    /\ UNCHANGED <<students, max_grade, statistics, constructed, result,
                   disk, step>>

NextHistogram == histogram

SpecHistogram == InitHistogram /\ [][NextHistogram]_vars

(***************************************************************************)
(* The statistics: ExamStatistics::new applied to any vector and max_grade *)
(***************************************************************************)
InitStatistics ==
    /\ students \in SeqsUpTo(StudentsOver(Names, Grades), MaxStudents)
                    \cup {TestStudents, TieStudents}
    /\ max_grade \in MaxGrades
    /\ statistics = None
    /\ constructed = <<>>
    /\ result = "Ok"
    /\ pc = "input"
    /\ disk = None
    /\ step = None
    /\ plot = None

new ==
    /\ pc = "input"
    /\ LET built == ExamStatistics_new(students, max_grade)
       IN  /\ students' = built.students
           /\ statistics' = Some(built.statistics)
    /\ pc' = "done"
    /\ UNCHANGED <<max_grade, constructed, result>>
    /\ UNCHANGED inputs

NextStatistics == new

SpecStatistics == InitStatistics /\ [][NextStatistics]_vars

(***************************************************************************)
(* Properties of the ranking and percentile engine (SpecStatistics)        *)
(***************************************************************************)
Dom == 1..Len(students)

Engined == pc = "done" /\ \A i \in Dom :
               students[i].rank # None /\ students[i].percentile # None

Grade(i) == students[i].grade

Rank(i) == students[i].rank[1]

Percentile(i) == students[i].percentile[1]

\* a is strictly below b, by cross-multiplication of the fractions
Below(a, b) == a.num * b.den < b.num * a.den

DistinctGrades == { Grade(i) : i \in Dom }

IsHighest(i) == \A j \in Dom : ~Below(Grade(i), Grade(j))

\* C1: once the engine has run, two entries with equal grades have equal
\* rank and equal percentile, whatever their names and positions.
C1_EqualGradesShareRankAndPercentile ==
    pc = "done" =>
        /\ Engined
        /\ \A i, j \in Dom :
               Grade(i) = Grade(j) =>
                   Rank(i) = Rank(j) /\ Percentile(i) = Percentile(j)

\* two entries tied on the grade, with different names, apart in the store
C1_Witness ==
    /\ Engined
    /\ \E i, j \in Dom :
           /\ j > i + 1
           /\ Grade(i) = Grade(j)
           /\ students[i].name # students[j].name
           /\ Grade(i + 1) # Grade(i)
           /\ Rank(i) = Rank(j)

\* C2: in a non-empty set every entry with the highest grade gets the
\* percentile 100, the only entry of a one-entry set included.
C2_HighestGradeGetsHundred ==
    pc = "done" =>
        \A i \in Dom :
            IsHighest(i) => students[i].percentile = Some(FromInt(100))

C2_Witness ==
    /\ pc = "done"
    /\ Len(students) = 1
    /\ students[1].percentile = Some(FromInt(100))

\* C3: the rank of an entry is 1 plus the number of distinct grades above
\* its own; walking down the grades the rank starts at 1 and grows by
\* exactly 1 at each boundary between distinct grades and nowhere else; the
\* highest rank is the number of distinct grades (0 for the empty set).
C3_RankIsDense ==
    pc = "done" =>
        /\ Engined
        /\ \A i \in Dom :
               /\ Rank(i) >= 1
               /\ Rank(i) = 1 + Cardinality({ g \in DistinctGrades :
                                                 Below(Grade(i), g) })
               /\ IsHighest(i) => Rank(i) = 1
        /\ \A i, j \in Dom :
               /\ Grade(i) = Grade(j) => Rank(i) = Rank(j)
               /\ ( /\ Below(Grade(j), Grade(i))
                    /\ ~\E k \in Dom : /\ Below(Grade(j), Grade(k))
                                       /\ Below(Grade(k), Grade(i)) )
                  => Rank(j) = Rank(i) + 1
        /\ statistics[1].highest_rank = Cardinality(DistinctGrades)

\* a tie group of two above a lower grade: ranks 1, 1, 2
C3_Witness ==
    /\ Engined
    /\ Len(students) = 3
    /\ Cardinality(DistinctGrades) = 2
    /\ Cardinality({ i \in Dom : IsHighest(i) }) = 2
    /\ statistics[1].highest_rank = 2

\* C4: an entry with a strictly higher grade has a rank number no greater
\* and a percentile no smaller, and every percentile lies in [0, 100].
C4_HigherGradeRanksNoWorse ==
    pc = "done" =>
        /\ Engined
        /\ \A i, j \in Dom :
               Below(Grade(j), Grade(i)) =>
                   /\ Rank(i) <= Rank(j)
                   /\ ~Below(Percentile(i), Percentile(j))
        /\ \A i \in Dom :
               /\ Percentile(i).den > 0
               /\ ~Below(Percentile(i), FromInt(0))
               /\ ~Below(FromInt(100), Percentile(i))

\* three distinct grades, not stored in grade order
C4_Witness ==
    /\ Engined
    /\ Cardinality(DistinctGrades) = 3
    /\ Below(Grade(1), Grade(2))
    /\ Below(Grade(3), Grade(1))
    /\ Below(Percentile(3), Percentile(1))

NumberBelow(i) == Cardinality({ j \in Dom : Below(Grade(j), Grade(i)) })

\* C5: an entry below the highest grade gets i / (n - 1) * 100, i being the
\* number of entries with a strictly lower grade; five distinct grades get
\* 0, 25, 50, 75 and 100.
C5_PercentileIsFirstIndexOfTieGroup ==
    pc = "done" =>
        /\ Engined
        /\ \A i \in Dom :
               ~IsHighest(i) =>
                   Percentile(i) = Norm(100 * NumberBelow(i), Len(students) - 1)
        /\ ( Len(students) = 5 /\ Cardinality(DistinctGrades) = 5 )
               => { Percentile(i) : i \in Dom }
                      = { FromInt(0), FromInt(25), FromInt(50), FromInt(75),
                          FromInt(100) }

\* the five students of the tests: 50, 25, 100, 75, 0
C5_Witness ==
    /\ Engined
    /\ Len(students) = 5
    /\ [i \in Dom |-> students[i].grade] = GradesOf(TestStudents)
    /\ [i \in Dom |-> Percentile(i)]
           = << FromInt(50), FromInt(25), FromInt(100), FromInt(75),
                FromInt(0) >>

IsTieScenario ==
    /\ pc = "done"
    /\ Len(students) = 3
    /\ [i \in Dom |-> [name |-> students[i].name, grade |-> students[i].grade]]
           = [i \in 1..3 |-> [name |-> TieStudents[i].name,
                              grade |-> TieStudents[i].grade]]

\* C6 as stated: for A = 5.0, B = 5.0, C = 10.0 the entries A and B share
\* rank 2 and percentile 50.0, and C has rank 1 and percentile 100.0.
C6_TieScenarioSharesFifty ==
    IsTieScenario =>
        /\ students[1].rank = Some(2) /\ students[2].rank = Some(2)
        /\ students[1].percentile = Some(FromInt(50))
        /\ students[2].percentile = Some(FromInt(50))
        /\ students[3].rank = Some(1)
        /\ students[3].percentile = Some(FromInt(100))

\* C6 amended: for A = 5.0, B = 5.0, C = 10.0 the entries A and B share
\* rank 2 and percentile 0.0 (the first index of their tie group is 0, and
\* 0 / (3 - 1) * 100 = 0), and C has rank 1 and percentile 100.0.
C6_TieScenarioSharesZero ==
    IsTieScenario =>
        /\ students[1].rank = Some(2) /\ students[2].rank = Some(2)
        /\ students[1].percentile = Some(FromInt(0))
        /\ students[2].percentile = Some(FromInt(0))
        /\ students[3].rank = Some(1)
        /\ students[3].percentile = Some(FromInt(100))

C6_Witness ==
    /\ IsTieScenario
    /\ max_grade = FromInt(10)
    /\ students[1].percentile = students[2].percentile
    /\ students[3].rank = Some(1)

\* C7: for the empty set the record built by ExamStatistics::new has mean,
\* median, std_dev and pass_rate all equal to 0.
C7_EmptySetStatisticsAreZero ==
    ( pc = "done" /\ Len(students) = 0 ) =>
        /\ statistics[1].mean = FromInt(0)
        /\ statistics[1].median = FromInt(0)
        /\ statistics[1].std_dev.radicand = FromInt(0)
        /\ statistics[1].pass_rate = FromInt(0)

\* C10: passed counts the entries with grade >= max_grade / 2, failed is
\* total minus passed, the two add up to total and neither is negative;
\* with max_grade 10 exactly the entries with grade >= 5.0 pass.
C10_PassedAndFailedPartitionTotal ==
    pc = "done" =>
        LET st == statistics[1]
            passing == { i \in Dom :
                           2 * Grade(i).num * max_grade.den
                               >= max_grade.num * Grade(i).den }
        IN  /\ st.total_students = Len(students)
            /\ st.passed_students = Cardinality(passing)
            /\ st.failed_students = st.total_students - st.passed_students
            /\ st.passed_students + st.failed_students = st.total_students
            /\ st.passed_students >= 0 /\ st.failed_students >= 0
            /\ max_grade = FromInt(10) =>
                   st.passed_students
                       = Cardinality({ i \in Dom :
                                         ~Below(Grade(i), FromInt(5)) })

\* max_grade 10: an entry at exactly 5.0 passes next to one that fails
C10_Witness ==
    /\ pc = "done"
    /\ max_grade = FromInt(10)
    /\ \E i, j \in Dom : Grade(i) = FromInt(5) /\ Below(Grade(j), FromInt(5))
    /\ statistics[1].passed_students >= 1
    /\ statistics[1].failed_students >= 1

RECURSIVE IsSubSeq(_, _)
IsSubSeq(short, long) ==
    IF short = <<>> THEN TRUE
    ELSE IF long = <<>> THEN FALSE
    ELSE IF short[1] = long[1] THEN IsSubSeq(Tail(short), Tail(long))
    ELSE IsSubSeq(short, Tail(long))

FilterStep ==
    \/ \E query \in SeqsUpTo(Queries, MaxQueries) : filter_by_name(query)
    \/ \E file \in ExamFiles : filter_by_file(file)

\* C9: a filter keeps each retained entry as it was (name, grade, stored
\* rank and percentile) and keeps the retained entries in their relative
\* order; it only removes entries.
C9_FiltersOnlyRemove ==
    [][FilterStep => IsSubSeq(students', students)]_vars

\* two entries are left of three, in the order of construction
C9_Witness ==
    /\ pc = "exam"
    /\ Len(students) = 2
    /\ Len(constructed) = 3
    /\ IsSubSeq(students, constructed)
    /\ students # SortedByGrade(students)

(***************************************************************************)
(* Properties of the filters, continued (Spec)                             *)
(***************************************************************************)
\* needle occurs in hay: behind some a characters of hay comes needle
IsInfix(needle, hay) ==
    \E a \in 0..Len(hay) :
        /\ a + Len(needle) <= Len(hay)
        /\ \A k \in 1..Len(needle) : hay[a + k] = needle[k]

MatchesSomeQuery(name, query) ==
    \E q \in Range(query) : IsInfix(to_lowercase(q), to_lowercase(name))

NamesOf(list) == { list[i].name : i \in 1..Len(list) }

\* C11: filter_by_name(queries) retains an entry if and only if its
\* lower-cased name contains the lower-cased form of at least one query as
\* a substring; every other entry is removed.
C11_FilterByNameKeepsSubstringMatches ==
    [][ \A query \in SeqsUpTo(Queries, MaxQueries) :
            filter_by_name(query) =>
                students' = SelectSeq(students,
                                LAMBDA s : MatchesSomeQuery(s.name, query)) ]_vars

\* of "Jo", "jos" and "Ana" the two names that contain "jo" are left
C11_Witness ==
    /\ pc = "exam"
    /\ NamesOf(constructed) = Names
    /\ NamesOf(students) = { <<74, 111>>, <<106, 111, 115>> }
    /\ Len(students) = 2

LowerNamesOf(list) == { to_lowercase(list[i].name) : i \in 1..Len(list) }

InFile(name, others) == to_lowercase(name) \in LowerNamesOf(others)

\* C12: filter_by_file retains an entry if and only if its lower-cased name
\* is equal to the lower-cased name of some entry of the external set;
\* several files applied one after another leave exactly the entries
\* whose name is in every external set, in whatever order they are applied.
C12_FilterByFileIntersects ==
    /\ [][ \A f \in Files :
               ( filter_by_file(f) /\ parse_file(f).kind = "Ok" ) =>
                   students' = SelectSeq(students,
                                   LAMBDA s : InFile(s.name, f.students)) ]_vars
    /\ [](pc = "exam" =>
            \A a, b \in FileStudents :
                /\ RetainByFile(RetainByFile(students, a), b)
                       = SelectSeq(students,
                             LAMBDA s : InFile(s.name, a) /\ InFile(s.name, b))
                /\ RetainByFile(RetainByFile(students, a), b)
                       = RetainByFile(RetainByFile(students, b), a))

\* of "Jo", "jos" and "Ana" only "Ana" is in both the file with "ana" and
\* "jos" and the file with "jo" and "ANA"
C12_Witness ==
    /\ pc = "exam"
    /\ result = "Ok"
    /\ NamesOf(constructed) = Names
    /\ NamesOf(students) = { <<65, 110, 97>> }

\* C20: when the file given to filter_by_file cannot be read or parsed,
\* filter_by_file returns that error and leaves the entry list unchanged.
C20_FailedFilterLeavesExam ==
    [][ \A f \in Files :
            ( filter_by_file(f) /\ parse_file(f).kind # "Ok" ) =>
                /\ students' = students
                /\ result' = parse_file(f).kind
                /\ result' \in {"Io", "ParseToml", "ParseJson",
                                "MissingFormat", "UnsupportedFormat"} ]_vars

\* an error was returned and the entries an earlier filter left are there
C20_Witness ==
    /\ pc = "exam"
    /\ result # "Ok"
    /\ Len(students) > 0
    /\ Len(students) < Len(constructed)

(***************************************************************************)
(* Properties of the sorts (SpecSort)                                      *)
(***************************************************************************)
\* a lower-case letter without its diacritic
BaseLetter(c) ==
    IF c >= 224 /\ c <= 229 THEN 97
    ELSE IF c = 231 THEN 99
    ELSE IF c >= 232 /\ c <= 235 THEN 101
    ELSE IF c >= 236 /\ c <= 239 THEN 105
    ELSE IF c = 241 THEN 110
    ELSE IF c >= 242 /\ c <= 246 THEN 111
    ELSE IF c >= 249 /\ c <= 252 THEN 117
    ELSE c

\* the case-insensitive, accent-normalized form of a name
Normalized(name) ==
    [i \in 1..Len(name) |-> BaseLetter(to_lowercase(name)[i])]

\* grade descending, and equal grades by normalized name ascending
InGradeThenNameOrder(list) ==
    \A i \in 1..(Len(list) - 1) :
        /\ ~Below(list[i].grade, list[i + 1].grade)
        /\ list[i].grade = list[i + 1].grade =>
               ~StrLess(Normalized(list[i + 1].name), Normalized(list[i].name))

\* C13: after sort_by_grade the entries are in grade-descending order, and
\* entries with equal grades are in ascending order of their
\* case-insensitive, accent-normalized names ("á" sorts as "a", before "b").
C13_SortByGradeBreaksTiesByNormalizedName ==
    [][sort_by_grade => InGradeThenNameOrder(students')]_vars

\* C14: sort_by_grade, then sort_by_alphabetic_order, then sort_by_grade
\* again gives the order sort_by_grade gives on the initial order; after
\* any sequence of sorts sort_by_grade still gives that order.
C14_SortByGradeIsDeterminedByInitialOrder ==
    /\ [](pc = "exam" =>
            /\ SortedByGrade(SortedByName(SortedByGrade(students)))
                   = SortedByGrade(students)
            /\ SortedByGrade(SortedByGrade(students)) = SortedByGrade(students))
    /\ [][sort_by_grade => students' = SortedByGrade(constructed)]_vars

\* the exam is in grade order, which is neither the initial order nor the
\* alphabetic order
C14_Witness ==
    /\ pc = "exam"
    /\ students = SortedByGrade(constructed)
    /\ students # constructed
    /\ students # SortedByName(students)
    /\ \E i \in 1..(Len(students) - 1) :
           students[i].grade = students[i + 1].grade

(***************************************************************************)
(* Parsing a file                                                          *)
(***************************************************************************)
\* the error kind that names what is wrong with a file, the extension first
KindByExtensionFirst(file) ==
    IF file.extension = None THEN "MissingFormat"
    ELSE IF file.extension \notin {Some("toml"), Some("json")}
         THEN "UnsupportedFormat"
    ELSE IF ~file.readable THEN "Io"
    ELSE IF ~file.well_formed
         THEN (IF file.extension = Some("toml") THEN "ParseToml"
               ELSE "ParseJson")
    ELSE "Ok"

\* C18: parsing a file reports the kind that identifies the failure: a path
\* with no extension gives the missing-extension kind and a path with an
\* extension other than toml and json gives the unsupported-extension kind,
\* whether or not the file exists; an unreadable file gives the read-failure
\* kind and malformed content the deserialization-failure kind of its format.
C18_ErrorKindIdentifiesFailure ==
    (pc \in {"failed", "exam"} /\ disk # None)
        => result = KindByExtensionFirst(disk[1])

(***************************************************************************)
(* The histogram                                                           *)
(***************************************************************************)
StepValue == UnwrapOr(step, FromInt(1))

Drawn == plot[1]

LastBucket == Ceil(FDiv(max_grade, StepValue)) - 1

\* C15: for a positive max_grade and a positive step, a grade equal to
\* max_grade and a grade greater than max_grade are both counted in the
\* last bucket, of index ceil(max_grade / step) - 1, and never past it.
C15_MaxGradeFallsInLastBucket ==
    (/\ plot # None
     /\ FLt(FromInt(0), max_grade)
     /\ FLt(FromInt(0), StepValue))
        => /\ ~Drawn.panicked
           /\ \A i \in 1..Len(students) :
                  FGe(students[i].grade, max_grade)
                      => Drawn.bucket_of[i] = LastBucket

\* C16: the overflow flag is true exactly when some grade is greater than
\* the max_grade passed to histogram.
C16_OverflowIffAboveConfiguredMaxGrade ==
    plot # None
        => (Drawn.overflow
                <=> \E i \in 1..Len(students) :
                        FLt(max_grade, students[i].grade))

\* C17: the statistics and the buckets of the histogram are computed without
\* a panic for every entry set, max_grade and step.
C17_HistogramNeverPanics ==
    pc # "panicked"

\* C19: with a max_grade of 0 and a positive step, for any entry set, the
\* empty one included, there is at least one bucket and every entry is
\* counted in a bucket.
C19_ZeroMaxGradeHasABucket ==
    (/\ plot # None
     /\ FEq(max_grade, FromInt(0))
     /\ FLt(FromInt(0), StepValue))
        => /\ ~Drawn.panicked
           /\ Len(Drawn.buckets) >= 1
           /\ Len(Drawn.bucket_of) = Len(students)

(***************************************************************************)
(* The entries of an exam over its operations                              *)
(***************************************************************************)
NameAndGrade(s) == <<s.name, s.grade>>

\* how many entries of list have the name and grade p
Count(list, p) ==
    Cardinality({ i \in 1..Len(list) : NameAndGrade(list[i]) = p })

IsSubMultiset(part, whole) ==
    \A i \in 1..Len(part) :
        Count(part, NameAndGrade(part[i]))
            <= Count(whole, NameAndGrade(part[i]))

SortStep == sort_by_grade \/ sort_by_alphabetic_order

\* C21: after any sequence of sorts and filters the entries of the exam are
\* a sub-multiset of the entries it was constructed with; a sort keeps the
\* length and the multiset of (name, grade) pairs, a filter only removes
\* entries, and no operation adds an entry or changes a name or a grade.
C21_EntriesAreSubMultisetOfConstructed ==
    /\ [](pc = "exam" => IsSubMultiset(students, constructed))
    /\ [][SortStep => /\ Len(students') = Len(students)
                      /\ IsSubMultiset(students', students)
                      /\ IsSubMultiset(students, students')]_vars
    /\ [][FilterStep => /\ Len(students') <= Len(students)
                        /\ IsSubMultiset(students', students)]_vars

\* two of three entries are left, in an order that a sort gave them
C21_Witness ==
    /\ pc = "exam"
    /\ Len(constructed) = 3
    /\ Len(students) = 2
    /\ ~IsSubSeq(students, constructed)
    /\ IsSubMultiset(students, constructed)

=============================================================================
